---- MODULE Spec2Model ----
(***************************************************************************)
(* Model of stacker.py (bounding-box stacking logic) and of the "stack"    *)
(* operator of stacker_addon.py.                                           *)
(*                                                                         *)
(* A bound is bounds[k][m] with k the axis (0, 1, 2) and m = 0 for the     *)
(* minimum, m = 1 for the maximum, as in the np.array of shape (3, 2).     *)
(* A batch is a function from 0..N-1 to bounds, as in the np.array of      *)
(* shape (num_bounds, 3, 2).  Coordinates are drawn from an even grid so   *)
(* that the midpoint np.mean takes of a minimum and a maximum is exact.    *)
(***************************************************************************)
EXTENDS Integers, FiniteSets, Sequences, TLC

\* ------------------------------------------------------------------------
\* Bounds of the model
\* ------------------------------------------------------------------------
MaxBoxes == 3
MaxCoord == 2
MaxPad == 1

Axes == {0, 1, 2}
Grid == {2 * c : c \in 0..MaxCoord}
Paddings == 0..MaxPad

Pair(lo, hi) == [m \in {0, 1} |-> IF m = 0 THEN lo ELSE hi]
\* intervals with min <= max, and those with positive length
Intervals == {Pair(lo, hi) : lo \in Grid, hi \in Grid} \cap
             {p \in [{0, 1} -> Grid] : p[0] <= p[1]}
SolidIntervals == {p \in Intervals : p[0] < p[1]}
Zero3 == [k \in Axes |-> 0]

\* ------------------------------------------------------------------------
\* stacker.py: pure functions
\* ------------------------------------------------------------------------
\* np.mean over the last axis of a (3, 2) array: the midpoint of each axis
Mean(bnd) == [k \in Axes |-> (bnd[k][0] + bnd[k][1]) \div 2]

\* np.argmax / np.argmin of a function over 0..n-1: first occurrence
ArgMax(f) ==
    CHOOSE i \in DOMAIN f :
        /\ \A j \in DOMAIN f : f[j] <= f[i]
        /\ \A j \in DOMAIN f : j < i => f[j] < f[i]
ArgMin(f) ==
    CHOOSE i \in DOMAIN f :
        /\ \A j \in DOMAIN f : f[j] >= f[i]
        /\ \A j \in DOMAIN f : j < i => f[j] > f[i]

get_base(bounds, axis) ==
    LET idx == ArgMin([i \in DOMAIN bounds |-> bounds[i][axis][0]])
    IN  bounds[idx]

\* A sort key is a float: volume / dimensions[axis] is nan for 0 / 0.
Num(v) == [nan |-> FALSE, v |-> v]
NaN == [nan |-> TRUE, v |-> 0]
\* the order np.argsort sorts floats by: nan sorts after every number
KeyLess(a, b) == ~a.nan /\ (b.nan \/ a.v < b.v)

Perms(n) == {p \in [0..(n - 1) -> 0..(n - 1)] : \A i \in 0..(n - 1) : \E j \in 0..(n - 1) : p[j] = i}

\* np.argsort with the default kind ("quicksort", not stable): every
\* permutation that puts the keys in order is a possible result.
argsort(keys) ==
    {p \in Perms(Cardinality(DOMAIN keys)) :
        \A i, j \in DOMAIN keys : i < j => ~KeyLess(keys[p[j]], keys[p[i]])}

Dimensions(bnd) == [k \in Axes |-> bnd[k][1] - bnd[k][0]]
Volume(bnd) == Dimensions(bnd)[0] * Dimensions(bnd)[1] * Dimensions(bnd)[2]
Area(bnd, axis) ==
    IF Dimensions(bnd)[axis] = 0
    THEN NaN
    ELSE Num(Volume(bnd) \div Dimensions(bnd)[axis])

argsort_by_area(bounds, axis) ==
    argsort([i \in DOMAIN bounds |-> Area(bounds[i], axis)])

argsort_by_height(bounds, axis) ==
    argsort([i \in DOMAIN bounds |-> Num(bounds[i][axis][0])])

\* stack_above with a fault: the padding is left out
stack_above_Unpadded(base_bounds, incoming_bounds, axis, padding, centering) ==
    LET source0 == IF centering THEN Mean(incoming_bounds)
                   ELSE [k \in Axes |-> incoming_bounds[k][0]]
        target0 == IF centering THEN Mean(base_bounds) ELSE source0
        source == [source0 EXCEPT ![axis] = incoming_bounds[axis][0]]
        target == [target0 EXCEPT ![axis] = base_bounds[axis][1]]
    IN  [k \in Axes |-> target[k] - source[k]]

stack_above(base_bounds, incoming_bounds, axis, padding, centering) ==
    LET source0 == IF centering THEN Mean(incoming_bounds)
                   ELSE [k \in Axes |-> incoming_bounds[k][0]]
        target0 == IF centering THEN Mean(base_bounds) ELSE source0
        source == [source0 EXCEPT ![axis] = incoming_bounds[axis][0]]
        target1 == [target0 EXCEPT ![axis] = base_bounds[axis][1]]
        target == [target1 EXCEPT ![axis] = @ + padding]
    IN  [k \in Axes |-> target[k] - source[k]]

\* is_below with a fault: boxes that share a boundary collide
is_below_Closed(bounds_a, bounds_b, axis) ==
    LET c1 == [k \in Axes |-> (bounds_b[k][0] <= bounds_a[k][1]) /\ (bounds_b[k][1] >= bounds_a[k][0])]
        collision == [c1 EXCEPT ![axis] = bounds_b[axis][1] >= bounds_a[axis][0]]
    IN  \A k \in Axes : collision[k]

is_below(bounds_a, bounds_b, axis) ==
    LET c1 == [k \in Axes |-> (bounds_b[k][0] < bounds_a[k][1]) /\ (bounds_b[k][1] > bounds_a[k][0])]
        c2 == [k \in Axes |-> c1[k] \/ ((bounds_b[k][1] > bounds_a[k][0]) /\ (bounds_b[k][0] < bounds_a[k][1]))]
        collision == [c2 EXCEPT ![axis] = bounds_b[axis][1] >= bounds_a[axis][0]]
    IN  \A k \in Axes : collision[k]

translate_bounds(bnd, delta) ==
    [k \in Axes |-> [m \in {0, 1} |-> bnd[k][m] + delta[k]]]

\* ------------------------------------------------------------------------
\* State
\* ------------------------------------------------------------------------
VARIABLES
    pc,         \* position in the function or operator being run
    bounds,     \* the batch the caller passes in, in input (selection) order
    axis,       \* 0, 1 or 2
    padding,
    idxs,       \* drop_down: the height order
    floor,      \* drop_down: the flat floor
    output,     \* drop_down: the translations, by input index
    work,       \* drop_down: the local copy of bounds, updated as boxes land
    fn,         \* direct call: the function called and its other arguments
    result,     \* direct call: what the function returned
    active,     \* stack operator: context.active_object
    centering,  \* stack operator: tool.centering
    sorting,    \* stack operator: tool.sorting
    objs,       \* stack operator: the objects the loop goes through
    first_bounds, \* stack operator: the bounds the column stands on
    prev,       \* stack operator: the bounds of the object placed last
    location,   \* stack operator: what has been added to each obj.location
    pos         \* stack operator: the position of the loop in objs

dropVars == <<idxs, floor, output, work>>
callVars == <<fn, result>>
stackVars == <<active, centering, sorting, objs, first_bounds, prev, location, pos>>
vars == <<pc, bounds, axis, padding, dropVars, callVars, stackVars>>

Size(f) == Cardinality(DOMAIN f)
None == <<>>

\* ------------------------------------------------------------------------
\* stacker.py: drop_down
\* ------------------------------------------------------------------------
\* floor = bounds[idxs[0]].copy(); floor[:, 1] = floor[:, 0]
MakeFloor(bnd) == [k \in Axes |-> [m \in {0, 1} |-> bnd[k][0]]]

\* the candidates of one iteration: the floor, then the boxes already
\* processed, in processing order, that are below the source
Candidates(w, order, fl, ax, n) ==
    LET source == w[order[n]]
        processed == [q \in 1..n |-> w[order[q - 1]]]
        IsUnder(b) == is_below(b, source, ax)
    IN  <<fl>> \o SelectSeq(processed, IsUnder)

Target(w, order, fl, ax, n) ==
    LET candidates == Candidates(w, order, fl, ax, n)
    IN  candidates[ArgMax([r \in DOMAIN candidates |-> candidates[r][ax][1]])]

\* DropDelta with a fault: padding never added; padding added on the floor
\* too; the source centred over the target
DropDelta_NoPadding(w, order, fl, ax, pad, n) ==
    stack_above(Target(w, order, fl, ax, n), w[order[n]], ax, 0, FALSE)
DropDelta_FloorPadding(w, order, fl, ax, pad, n) ==
    stack_above(Target(w, order, fl, ax, n), w[order[n]], ax, pad, FALSE)
DropDelta_Centering(w, order, fl, ax, pad, n) ==
    LET target == Target(w, order, fl, ax, n)
        out == stack_above(target, w[order[n]], ax, 0, TRUE)
    IN  IF target # fl THEN [out EXCEPT ![ax] = @ + pad] ELSE out

\* the translation one iteration of the loop gives box order[n]
DropDelta(w, order, fl, ax, pad, n) ==
    LET source == w[order[n]]
        target == Target(w, order, fl, ax, n)
        out == stack_above(target, source, ax, 0, FALSE)
    IN  IF target # fl THEN [out EXCEPT ![ax] = @ + pad] ELSE out

\* DropIndex with a fault: the position in the height order
DropIndex_Position(order, n) == n

\* the index of output and bounds one iteration writes
DropIndex(order, n) == order[n]

\* Input batches: any extent on the stacking axis and a footprint of positive
\* area: any width on the first of the two other axes, the first grid cell
\* on the second.
DropBoxes(ax) ==
    LET h1 == CHOOSE k \in Axes \ {ax} : \A j \in Axes \ {ax} : k <= j
        h2 == CHOOSE k \in Axes \ {ax} : \A j \in Axes \ {ax} : k >= j
    IN  {b \in [Axes -> Intervals] : b[h1] \in SolidIntervals /\ b[h2] = Pair(0, 2)}
DropBatches(ax) == UNION {[0..(n - 1) -> DropBoxes(ax)] : n \in 1..MaxBoxes}

\* DropLoop with a fault: the local copy of bounds is not updated when a
\* box lands
RECURSIVE DropLoop_StaleBounds(_, _, _, _, _, _, _)
DropLoop_StaleBounds(w, out, order, fl, ax, pad, n) ==
    IF n >= Size(order)
    THEN [bounds |-> w, output |-> out]
    ELSE LET i == DropIndex(order, n)
             delta == DropDelta(w, order, fl, ax, pad, n)
         IN  DropLoop_StaleBounds(w, [out EXCEPT ![i] = delta], order, fl, ax, pad, n + 1)

\* lines 130-145: the loop, from iteration n on; returns the local copy of
\* bounds and the output as they are when the loop ends
RECURSIVE DropLoop(_, _, _, _, _, _, _)
DropLoop(w, out, order, fl, ax, pad, n) ==
    IF n >= Size(order)
    THEN [bounds |-> w, output |-> out]
    ELSE LET i == DropIndex(order, n)
             delta == DropDelta(w, order, fl, ax, pad, n)
         IN  DropLoop([w EXCEPT ![i] = translate_bounds(w[i], delta)],
                      [out EXCEPT ![i] = delta], order, fl, ax, pad, n + 1)

\* lines 122-147 for one order the sort returns
DropRun(b, order, ax, pad) ==
    DropLoop(b, [i \in DOMAIN b |-> Zero3], order, MakeFloor(b[order[0]]), ax, pad, 1)

\* drop_down as a function: every array it can return
drop_down(b, ax, pad) ==
    {DropRun(b, order, ax, pad).output : order \in argsort_by_height(b, ax)}

InitDrop ==
    /\ pc = "call"
    /\ axis \in Axes
    /\ padding \in Paddings
    /\ bounds \in DropBatches(axis)
    /\ idxs = None
    /\ floor = None
    /\ output = None
    /\ work = None
    /\ fn = None /\ result = None
    /\ active = None /\ centering = None /\ sorting = None /\ objs = None
    /\ first_bounds = None /\ prev = None /\ location = None /\ pos = 0

\* a call of drop_down(bounds, axis, padding), lines 122-147
DropDown ==
    /\ pc = "call"
    /\ \E order \in argsort_by_height(bounds, axis) :
          LET r == DropRun(bounds, order, axis, padding)
          IN  /\ idxs' = order
              /\ floor' = MakeFloor(bounds[order[0]])
              /\ work' = r.bounds
              /\ output' = r.output
    /\ pc' = "done"
    /\ UNCHANGED <<bounds, axis, padding, callVars, stackVars>>

NextDrop == DropDown

Spec == InitDrop /\ [][NextDrop]_vars

\* Input batches for two calls in a row: boxes of positive extent on every
\* axis, on the stacking axis of length 1 or 2 anywhere on the unit grid
\* (gaps of every size below a box, boxes that overlap and boxes that do
\* not), the footprints as in DropBoxes.
UnitIntervals ==
    {p \in {Pair(lo, lo + len) : lo \in 0..(2 * MaxCoord - 1), len \in 1..2} :
        p[1] <= 2 * MaxCoord}
TwiceBoxes(ax) ==
    LET h1 == CHOOSE k \in Axes \ {ax} : \A j \in Axes \ {ax} : k <= j
        h2 == CHOOSE k \in Axes \ {ax} : \A j \in Axes \ {ax} : k >= j
    IN  {b \in [Axes -> UnitIntervals \cup SolidIntervals] :
            b[ax] \in UnitIntervals /\ b[h1] \in SolidIntervals /\ b[h2] = Pair(0, 2)}
TwiceBatches(ax) == UNION {[0..(n - 1) -> TwiceBoxes(ax)] : n \in 1..MaxBoxes}

InitTwice ==
    /\ pc = "call"
    /\ axis \in Axes
    /\ padding \in Paddings
    /\ bounds \in TwiceBatches(axis)
    /\ idxs = None /\ floor = None /\ output = None /\ work = None
    /\ fn = None /\ result = None
    /\ active = None /\ centering = None /\ sorting = None /\ objs = None
    /\ first_bounds = None /\ prev = None /\ location = None /\ pos = 0

\* the batch translated by the output: translate_bounds(b, o) for each row
Translated(b, out) == [i \in DOMAIN b |-> translate_bounds(b[i], out[i])]

\* a second call, drop_down(translated, axis, padding), on the batch the
\* first call was given, each box translated by the vector returned for it
DropDownAgain ==
    /\ pc = "done"
    /\ LET translated == Translated(bounds, output)
       IN  \E order \in argsort_by_height(translated, axis) :
              /\ fn' = [name |-> "drop_down", bounds |-> translated]
              /\ result' = DropRun(translated, order, axis, padding).output
    /\ pc' = "again"
    /\ UNCHANGED <<bounds, axis, padding, dropVars, stackVars>>

NextTwice == DropDown \/ DropDownAgain

SpecTwice == InitTwice /\ [][NextTwice]_vars

\* ------------------------------------------------------------------------
\* stacker.py: the functions called directly
\* ------------------------------------------------------------------------
\* Input pairs: on every axis an interval that touches an end of the grid
\* (disjoint, touching, overlapping, nested and empty intervals all occur).
EdgeIntervals == {p \in Intervals : p[0] = 0 \/ p[1] = 2 * MaxCoord}
PairBatches == [0..1 -> [Axes -> EdgeIntervals]]

\* Input batches for the sorts: up to MaxBoxes boxes that reach the top of
\* the grid (lower bounds and extents differ, some extents are 0).
TopIntervals == {p \in Intervals : p[1] = 2 * MaxCoord}
SortBatches == UNION {[0..(n - 1) -> [Axes -> TopIntervals]] : n \in 1..MaxBoxes}

InitCall(batches) ==
    /\ pc = "call"
    /\ axis \in Axes
    /\ bounds \in batches
    /\ padding = 0
    /\ idxs = None /\ floor = None /\ output = None /\ work = None
    /\ fn = None /\ result = None
    /\ active = None /\ centering = None /\ sorting = None /\ objs = None
    /\ first_bounds = None /\ prev = None /\ location = None /\ pos = 0

InitPair == InitCall(PairBatches)
InitSort == InitCall(SortBatches)

Returns(name, value) ==
    /\ pc = "call"
    /\ pc' = "done"
    /\ fn' = name
    /\ result' = value
    /\ UNCHANGED <<bounds, axis, dropVars, stackVars>>

\* stack_above(bounds[0], bounds[1], axis, padding, centering)
CallStackAbove ==
    /\ \E pad \in Paddings, c \in BOOLEAN :
          /\ padding' = pad
          /\ Returns([name |-> "stack_above", centering |-> c],
                     stack_above(bounds[0], bounds[1], axis, pad, c))

\* is_below(bounds[0], bounds[1], axis)
CallIsBelow ==
    /\ Returns([name |-> "is_below"], is_below(bounds[0], bounds[1], axis))
    /\ UNCHANGED padding

\* translate_bounds(bounds[1], stack_above(bounds[0], bounds[1], axis))
CallTranslateBounds ==
    /\ Returns([name |-> "translate_bounds"],
               translate_bounds(bounds[1], stack_above(bounds[0], bounds[1], axis, 0, TRUE)))
    /\ UNCHANGED padding

CallArgsortByHeight ==
    /\ \E p \in argsort_by_height(bounds, axis) : Returns([name |-> "argsort_by_height"], p)
    /\ UNCHANGED padding

CallArgsortByArea ==
    /\ \E p \in argsort_by_area(bounds, axis) : Returns([name |-> "argsort_by_area"], p)
    /\ UNCHANGED padding

CallGetBase ==
    /\ Returns([name |-> "get_base"], get_base(bounds, axis))
    /\ UNCHANGED padding

NextPair == CallStackAbove \/ CallIsBelow \/ CallTranslateBounds
NextSort == CallArgsortByHeight \/ CallArgsortByArea \/ CallGetBase

SpecPair == InitPair /\ [][NextPair]_vars
SpecSort == InitSort /\ [][NextSort]_vars

\* ------------------------------------------------------------------------
\* stacker_addon.py: StackerOperator.execute
\* ------------------------------------------------------------------------
\* The selected objects are 0..N-1 in selection order and bounds[i] is
\* get_bounds of object i.  The active object is one of them, or -1 when it
\* is not among the selected objects (or there is none).  Boxes reach the
\* top of the grid on the stacking axis and start at 0 on the first of the
\* two other axes (areas, centres and lower bounds differ).
StackBoxes(ax) ==
    LET h1 == CHOOSE k \in Axes \ {ax} : \A j \in Axes \ {ax} : k <= j
        h2 == CHOOSE k \in Axes \ {ax} : \A j \in Axes \ {ax} : k >= j
    IN  {b \in [Axes -> Intervals] :
            /\ b[ax] \in TopIntervals
            /\ b[h1] \in SolidIntervals /\ b[h1][0] = 0
            /\ b[h2] = Pair(0, 2)}
StackBatches(ax) == UNION {[0..(n - 1) -> StackBoxes(ax)] : n \in 1..MaxBoxes}
\* tool.padding is a float property without a minimum
StackPaddings == (0 - 1)..MaxPad

InitStack ==
    /\ pc = "call"
    /\ axis \in Axes
    /\ padding \in StackPaddings
    /\ centering \in BOOLEAN
    /\ sorting \in BOOLEAN
    /\ bounds \in StackBatches(axis)
    /\ active \in (0 - 1)..(Size(bounds) - 1)
    /\ location = [i \in DOMAIN bounds |-> Zero3]
    /\ objs = None /\ first_bounds = None /\ prev = None /\ pos = 0
    /\ idxs = None /\ floor = None /\ output = None /\ work = None
    /\ fn = None /\ result = None

\* list.sort(key=...) of the list 0..n-1: stable, ascending, False < True
ListSort(n, key) ==
    CHOOSE p \in Perms(n) :
        \A i, j \in 0..(n - 1) : i < j =>
            \/ ~key[p[i]] /\ key[p[j]]
            \/ key[p[i]] = key[p[j]] /\ p[i] < p[j]

\* idxs[::-1]
Reversed(p) == [m \in DOMAIN p |-> p[Size(p) - 1 - m]]

\* StackStep with a fault: the next object is stacked on the untranslated
\* bounds
StackStep_Untranslated(prv, bnd, ax, pad, c) ==
    [delta |-> stack_above(prv, bnd, ax, pad, c), prev |-> bnd]

\* lines 177-178: the translation of one object and the bounds it ends at
StackStep(prv, bnd, ax, pad, c) ==
    LET delta == stack_above(prv, bnd, ax, pad, c)
    IN  [delta |-> delta, prev |-> translate_bounds(bnd, delta)]

\* lines 148-150
ExecuteCancel ==
    /\ pc = "call"
    /\ Size(bounds) < 2
    /\ pc' = "cancelled"
    /\ UNCHANGED <<bounds, axis, padding, dropVars, callVars, stackVars>>

\* lines 152-175
ExecuteBegin ==
    /\ pc = "call"
    /\ Size(bounds) >= 2
    /\ IF sorting
       THEN \E p \in argsort_by_area(bounds, axis) :
               LET largest_first == Reversed(p)
                   all_bounds == [m \in DOMAIN bounds |-> bounds[largest_first[m]]]
               IN  /\ objs' = largest_first
                   /\ first_bounds' = get_base(all_bounds, axis)
       ELSE LET front == ListSort(Size(bounds), [i \in DOMAIN bounds |-> i # active])
            IN  /\ first_bounds' = bounds[front[0]]
                /\ objs' = [m \in 0..(Size(bounds) - 2) |-> front[m + 1]]
    /\ prev' = first_bounds'
    /\ pos' = 0
    /\ pc' = "loop"
    /\ UNCHANGED <<bounds, axis, padding, dropVars, callVars, active, centering, sorting, location>>

\* lines 176-179: one iteration of the loop
ExecuteStep ==
    /\ pc = "loop"
    /\ pos < Size(objs)
    /\ LET obj == objs[pos]
           step == StackStep(prev, bounds[obj], axis, padding, centering)
       IN  /\ prev' = step.prev
           /\ location' = [location EXCEPT ![obj] = [k \in Axes |-> @[k] + step.delta[k]]]
    /\ pos' = pos + 1
    /\ UNCHANGED <<pc, bounds, axis, padding, dropVars, callVars, active, centering, sorting, objs, first_bounds>>

\* line 181
ExecuteFinish ==
    /\ pc = "loop"
    /\ pos = Size(objs)
    /\ pc' = "done"
    /\ UNCHANGED <<bounds, axis, padding, dropVars, callVars, stackVars>>

NextStack == ExecuteCancel \/ ExecuteBegin \/ ExecuteStep \/ ExecuteFinish

SpecStack == InitStack /\ [][NextStack]_vars

\* ------------------------------------------------------------------------
\* Properties of drop_down
\* ------------------------------------------------------------------------
\* input box i translated by the vector returned for it
Landed(i) == translate_bounds(bounds[i], output[i])

\* two boxes intersect with positive length on all three axes
Overlap(a, b) ==
    \A k \in Axes : a[k][0] < a[k][1] /\ b[k][0] < b[k][1] /\ a[k][0] < b[k][1] /\ b[k][0] < a[k][1]

\* positions of the height order the loop has been through
Processed == IF pc = "call" THEN {} ELSE 1..(Size(idxs) - 1)

\* processed positions before p whose box, where it now lies, passed the
\* shadow test when the box at position p was processed
ShadowOf(p) == {q \in 0..(p - 1) : is_below(work[idxs[q]], bounds[idxs[p]], axis)}
Top(q) == work[idxs[q]][axis][1]

\* the minimum lower bound on the stacking axis over the input batch
MinLower ==
    CHOOSE m \in {bounds[i][axis][0] : i \in DOMAIN bounds} :
        \A i \in DOMAIN bounds : m <= bounds[i][axis][0]

\* C1: after each input box is translated by the vector drop_down returns
\* for it, no two boxes of the batch overlap in volume.
C1_NoOverlapAfterDrop ==
    pc = "done" =>
        \A i, j \in DOMAIN bounds : i # j => ~Overlap(Landed(i), Landed(j))

\* the local copy of bounds as it was when position p was processed: the
\* box at p not yet moved (the boxes after p do not take part)
WorkBefore(p) == [work EXCEPT ![idxs[p]] = bounds[idxs[p]]]

C3_FloorWithoutPadding ==
    pc # "call" =>
        \A p \in Processed \cup {0} :
            ShadowOf(p) = {} => Landed(idxs[p])[axis][0] = MinLower

C3_Witness ==
    /\ pc = "done"
    /\ padding > 0
    /\ \E p \in Processed :
          /\ ShadowOf(p) = {}
          /\ bounds[idxs[p]][axis][0] > MinLower
          /\ Landed(idxs[p])[axis][0] = MinLower

\* C4: every returned translation is zero on the two non-stacking axes, and
\* the translation of the first box in height order is zero on all axes.
C4_OnlyStackingAxisMoves ==
    pc # "call" =>
        /\ \A i \in DOMAIN output : \A k \in Axes \ {axis} : output[i][k] = 0
        /\ output[idxs[0]] = Zero3

C4_Witness ==
    /\ pc = "done"
    /\ \E i \in DOMAIN output : output[i][axis] # 0
    /\ \E i, j \in DOMAIN bounds : \E k \in Axes \ {axis} : bounds[i][k] # bounds[j][k]

DistinctLower ==
    \A i, j \in DOMAIN bounds : i # j => bounds[i][axis][0] # bounds[j][axis][0]

\* C5: for a batch with pairwise distinct lower bounds on the stacking axis,
\* permuting the input permutes the returned translations the same way.
C5_PermutationEquivariant ==
    (pc = "done" /\ DistinctLower) =>
        \A pi \in Perms(Size(bounds)) :
            \A out2 \in drop_down([j \in DOMAIN bounds |-> bounds[pi[j]]], axis, padding) :
                \A j \in DOMAIN bounds : out2[j] = output[pi[j]]

C5_Witness ==
    /\ pc = "done"
    /\ DistinctLower
    /\ Size(bounds) = 3
    /\ idxs # [j \in DOMAIN bounds |-> j]
    /\ \E i, j \in DOMAIN output : output[i] # output[j]

\* every box of the input batch has positive extent on every axis
AllSolid == \A i \in DOMAIN bounds : \A k \in Axes : bounds[i][k][0] < bounds[i][k][1]

\* no two boxes of the input batch overlap in volume
Resolved == \A i, j \in DOMAIN bounds : i # j => ~Overlap(bounds[i], bounds[j])

\* C11: for padding 0 and an input batch of boxes with positive extent on
\* every axis that pairwise do not overlap in volume, drop_down run again
\* on the batch translated by what the first run returned (same axis,
\* padding 0) returns the zero translation for every box.
C11_IdempotentOnResolved ==
    (pc = "again" /\ padding = 0 /\ AllSolid /\ Resolved) =>
        /\ fn.bounds = [i \in DOMAIN bounds |-> Landed(i)]
        /\ \A i \in DOMAIN bounds : result[i] = Zero3

\* three boxes, the first run moved one of them onto another box (not the
\* floor), and it ends above a box it started below, so that the second
\* run goes through the boxes in another order than the first
C11_Witness ==
    /\ pc = "again"
    /\ padding = 0 /\ AllSolid /\ Resolved
    /\ Size(bounds) = 3
    /\ \E i \in DOMAIN bounds :
          /\ output[i][axis] # 0
          /\ Landed(i)[axis][0] > MinLower
          /\ \E j \in DOMAIN bounds :
                /\ bounds[i][axis][0] < bounds[j][axis][0]
                /\ Landed(i)[axis][0] > Landed(j)[axis][0]
    /\ \A i \in DOMAIN bounds : result[i] = Zero3

\* ------------------------------------------------------------------------
\* Properties of the functions called directly
\* ------------------------------------------------------------------------
Returned(name) == pc = "done" /\ fn.name = name

\* C6: stack_above returns base.max[axis] + padding - incoming.min[axis] on
\* the stacking axis; on each other axis the difference of the two centres
\* (base minus incoming) with centering, and zero without.
C6_StackAboveTranslation ==
    Returned("stack_above") =>
        LET base == bounds[0]
            incoming == bounds[1]
        IN  /\ result[axis] = base[axis][1] + padding - incoming[axis][0]
            /\ translate_bounds(incoming, result)[axis][0] = base[axis][1] + padding
            /\ \A k \in Axes \ {axis} :
                  IF fn.centering
                  THEN 2 * result[k] = (base[k][0] + base[k][1]) - (incoming[k][0] + incoming[k][1])
                  ELSE result[k] = 0

C6_Witness ==
    /\ Returned("stack_above")
    /\ fn.centering
    /\ padding > 0
    /\ \E k \in Axes \ {axis} : result[k] # 0
    /\ result[axis] < 0

\* C7: is_below(A, B, axis) is true exactly when A.min < B.max and
\* A.max > B.min on both non-stacking axes and B.max >= A.min on the
\* stacking axis.
C7_IsBelowExact ==
    Returned("is_below") =>
        LET A == bounds[0]
            B == bounds[1]
        IN  result = (/\ \A k \in Axes \ {axis} : A[k][0] < B[k][1] /\ A[k][1] > B[k][0]
                      /\ B[axis][1] >= A[axis][0])

\* the two boxes share a boundary on one horizontal axis, have a common
\* stretch on the other, B reaches A's bottom, and is_below says no
C7_Witness ==
    /\ Returned("is_below")
    /\ result = FALSE
    /\ bounds[1][axis][1] >= bounds[0][axis][0]
    /\ \E k \in Axes \ {axis} :
          /\ bounds[0][k][1] = bounds[1][k][0]
          /\ bounds[0][k][0] < bounds[0][k][1]
          /\ bounds[1][k][0] < bounds[1][k][1]
          /\ \A j \in Axes \ {axis, k} :
                bounds[0][j][0] < bounds[1][j][1] /\ bounds[0][j][1] > bounds[1][j][0]

\* the keys the two sorts are said to sort by
HeightKey(bnd, ax) == bnd[ax][0]
CrossSection(bnd, ax) ==
    LET h1 == CHOOSE k \in Axes \ {ax} : \A j \in Axes \ {ax} : k <= j
        h2 == CHOOSE k \in Axes \ {ax} : \A j \in Axes \ {ax} : k >= j
    IN  (bnd[h1][1] - bnd[h1][0]) * (bnd[h2][1] - bnd[h2][0])

\* p is a permutation of the indices that lists the keys in non-decreasing
\* order and keeps equal keys in input order
StableSorted(p, key) ==
    /\ DOMAIN p = DOMAIN key
    /\ \A i \in DOMAIN key : \E n \in DOMAIN p : p[n] = i
    /\ \A m, n \in DOMAIN p : m < n =>
          \/ key[p[m]] < key[p[n]]
          \/ key[p[m]] = key[p[n]] /\ p[m] < p[n]

\* C8: argsort_by_height and argsort_by_area return a permutation of
\* 0..N-1 in non-decreasing key order with equal keys kept in input order;
\* the keys are the lower bound on the axis and the cross-sectional area.
C8_SortsStableByKey ==
    /\ Returned("argsort_by_height") =>
          StableSorted(result, [i \in DOMAIN bounds |-> HeightKey(bounds[i], axis)])
    /\ Returned("argsort_by_area") =>
          StableSorted(result, [i \in DOMAIN bounds |-> CrossSection(bounds[i], axis)])

\* ------------------------------------------------------------------------
\* Properties of the stack operator
\* ------------------------------------------------------------------------
\* where object i is now: its bounds moved by what was added to its location
Placed(i) == translate_bounds(bounds[i], location[i])

\* C9: the boxes form one column in processing order: each placed box has
\* its lower bound at the upper bound of the box placed before it, where
\* that one now is, plus padding; the first placed box at the upper bound
\* of the anchor plus padding.
C9_ContiguousColumn ==
    pc \in {"loop", "done"} =>
        \A n \in 0..(pos - 1) :
            Placed(objs[n])[axis][0] =
                (IF n = 0 THEN first_bounds[axis][1] ELSE Placed(objs[n - 1])[axis][1]) + padding

C9_Witness ==
    /\ pc = "done"
    /\ pos = 3
    /\ sorting /\ centering
    /\ padding > 0
    /\ \E n \in 0..(pos - 1) : \E k \in Axes \ {axis} : location[objs[n]][k] # 0

\* C10: with sorting off the active box is the anchor and does not move,
\* and the other selected boxes are stacked above it in selection order,
\* the first of them directly on the active box.
C10_ActiveIsAnchor ==
    (pc \in {"loop", "done"} /\ ~sorting) =>
        /\ active \in DOMAIN bounds
        /\ first_bounds = bounds[active]
        /\ location[active] = Zero3
        /\ DOMAIN objs = 0..(Size(bounds) - 2)
        /\ \A m \in DOMAIN objs : objs[m] = (IF m < active THEN m ELSE m + 1)
        /\ pos >= 1 => Placed(objs[0])[axis][0] = bounds[active][axis][1] + padding

====
